---------------------------- MODULE Spec2Model ----------------------------
(***************************************************************************)
(* Border remover: findContentBounds (corner-based background mode, noise  *)
(* tolerant row/column classification, four boundary scans with lookahead) *)
(* and the batch driver processDirectory / processImage.                   *)
(*                                                                         *)
(* An image is an image.RGBA: a pixel store Pix and a rectangle Rect.      *)
(* Pix[y+1][x+1] is the opaque 8-bit colour <<r, g, b>> of pixel (x, y).  *)
(* SubImage shares Pix and narrows Rect, as in the standard library.       *)
(***************************************************************************)
EXTENDS Integers, Sequences, FiniteSets, TLC

\* ------------------------------------------------------------ constants

\* the threshold of the first revision (main.go), before dark gray borders
\* were taken for background
blackThresholdOld == 15

blackThreshold == 60

whiteThreshold == 195

\* noiseTolerance = 0.95, kept as the exact ratio noiseNum / noiseDen
noiseNum == 95

noiseDen == 100

lookaheadGap == 5

\* ------------------------------------------------------------ bounds

\* largest side of the images whose pixels are enumerated exhaustively
MaxTiny == 2

\* side of the mid-size canvases (20 is the least width at which a line with
\* one stray pixel is still removable: 19/20 = 0.95)
MidSide == 20

\* side of the canvases of the test-suite
Canvas == 100

\* most directory entries in a listing
MaxFiles == 2

\* ------------------------------------------------------------ colours

Black == <<0, 0, 0>>

Dark == <<60, 60, 60>>

Dim == <<61, 61, 61>>

\* color.Gray16{Y: 30000} stored in an RGBA image: 30000 >> 8 = 117
Gray == <<117, 117, 117>>

Pale == <<194, 194, 194>>

Light == <<195, 195, 195>>

White == <<255, 255, 255>>

Red == <<255, 0, 0>>

\* color.RGBA{}: what At returns outside the image's rectangle
ZeroColor == <<0, 0, 0>>

\* color.RGBA.RGBA() of an opaque colour: each channel widened to 16 bits
RGBA(c) == <<c[1] * 257, c[2] * 257, c[3] * 257>>

\* v >> 8
Shr8(v) == v \div 256

\* ------------------------------------------------------------ rectangles

ZR == [MinX |-> 0, MinY |-> 0, MaxX |-> 0, MaxY |-> 0]

\* image.Rect: the rectangle with the coordinates put in order
Rect(x0, y0, x1, y1) ==
    [MinX |-> IF x0 > x1 THEN x1 ELSE x0, MinY |-> IF y0 > y1 THEN y1 ELSE y0,
     MaxX |-> IF x0 > x1 THEN x0 ELSE x1, MaxY |-> IF y0 > y1 THEN y0 ELSE y1]

\* Rectangle.Empty
Empty(r) == r.MinX >= r.MaxX \/ r.MinY >= r.MaxY

Dx(r) == r.MaxX - r.MinX

Dy(r) == r.MaxY - r.MinY

\* Point.In
PointIn(x, y, r) == r.MinX <= x /\ x < r.MaxX /\ r.MinY <= y /\ y < r.MaxY

\* Rectangle.Intersect
Intersect(r, s) ==
    LET t == [MinX |-> IF r.MinX < s.MinX THEN s.MinX ELSE r.MinX,
              MinY |-> IF r.MinY < s.MinY THEN s.MinY ELSE r.MinY,
              MaxX |-> IF r.MaxX > s.MaxX THEN s.MaxX ELSE r.MaxX,
              MaxY |-> IF r.MaxY > s.MaxY THEN s.MaxY ELSE r.MaxY]
    IN  IF Empty(t) THEN ZR ELSE t

\* ------------------------------------------------------------ test images

\* a layer <<x0, y0, x1, y1, c>> is drawRect(img, x0, y0, x1, y1, c);
\* img.Set(x, y, c) is the layer <<x, y, x + 1, y + 1, c>>
Covering(layers, x, y) ==
    {k \in 1..Len(layers) :
        /\ layers[k][1] <= x /\ x < layers[k][3]
        /\ layers[k][2] <= y /\ y < layers[k][4]}

Last(S) == CHOOSE k \in S : \A j \in S : j <= k

PixelOf(bg, layers, x, y) ==
    LET S == Covering(layers, x, y)
    IN  IF S = {} THEN bg ELSE layers[Last(S)][5]

\* createImage(w, h, bg) followed by the draws of layers, in order
NewImage(w, h, bg, layers) ==
    [Pix  |-> [yy \in 1..h |-> [xx \in 1..w |-> PixelOf(bg, layers, xx - 1, yy - 1)]],
     Rect |-> [MinX |-> 0, MinY |-> 0, MaxX |-> w, MaxY |-> h]]

\* how an input image is drawn
Input(w, h, bg, layers) == [w |-> w, h |-> h, bg |-> bg, layers |-> layers]

Opposite(c) == IF c = Black THEN White ELSE Black

\* ------------------------------------------------------------ state

VARIABLES
    src,                \* how the input image was drawn: [w, h, bg, layers]
    img,                \* the image findContentBounds is working on
    pc,                 \* "start", "top", "bottom", "left", "right", "done"
    mode,               \* "None", "Black", "White"
    blackCornerCount,
    whiteCornerCount,
    x,                  \* loop variable of the column scans
    y,                  \* loop variable of the row scans
    minX, minY, maxX, maxY,
    result,             \* the rectangle returned
    scans,              \* the scans entered so far, in order
    pass,               \* 1: the input image, 2: its own cropped output
    first,              \* mode and result of pass 1
    rev1,               \* what the first revision's findContentBounds returns for img
    probe,              \* one colour and what the classifiers said of it
    files,              \* os.ReadDir's answer: a sequence of entries, or "error"
    bpc,                \* the driver's position
    idx,                \* index of the current directory entry
    outputs,            \* the names os.Create has created
    log,                \* one record per processImage call
    ret                 \* processDirectory's return value

scanVars ==
    <<src, img, pc, mode, blackCornerCount, whiteCornerCount, x, y,
      minX, minY, maxX, maxY, result, scans, pass, first, rev1,
      probe>>

batchVars == <<files, bpc, idx, outputs, log, ret>>

vars == <<scanVars, batchVars>>

\* ------------------------------------------------------------ pixels

bounds == img.Rect

\* RGBA.At: the zero colour outside the image's rectangle
At(px, py) ==
    IF PointIn(px, py, img.Rect) THEN img.Pix[py + 1][px + 1] ELSE ZeroColor

\* a classifier that takes one dark channel for black
isPixelBlackAny(r8, g8, b8) ==
    r8 <= blackThreshold \/ g8 <= blackThreshold \/ b8 <= blackThreshold

isPixelBlack(r8, g8, b8) ==
    r8 <= blackThreshold /\ g8 <= blackThreshold /\ b8 <= blackThreshold

\* a white test that leaves the threshold itself out
isPixelWhiteStrict(r8, g8, b8) ==
    r8 > whiteThreshold /\ g8 > whiteThreshold /\ b8 > whiteThreshold

isPixelWhite(r8, g8, b8) ==
    r8 >= whiteThreshold /\ g8 >= whiteThreshold /\ b8 >= whiteThreshold

\* r, g, b, _ := c.RGBA(); r8, g8, b8 := r>>8, g>>8, b>>8
Black8(c) ==
    LET v == RGBA(c) IN isPixelBlack(Shr8(v[1]), Shr8(v[2]), Shr8(v[3]))

White8(c) ==
    LET v == RGBA(c) IN isPixelWhite(Shr8(v[1]), Shr8(v[2]), Shr8(v[3]))

\* isBlack, kept for its test and for single-pixel checks
isBlack(c) ==
    LET v == RGBA(c)
        r8 == Shr8(v[1])
        g8 == Shr8(v[2])
        b8 == Shr8(v[3])
    IN  r8 <= blackThreshold /\ g8 <= blackThreshold /\ b8 <= blackThreshold

\* ------------------------------------------------------------ background mode

corners ==
    << <<bounds.MinX, bounds.MinY>>, <<bounds.MaxX - 1, bounds.MinY>>,
       <<bounds.MinX, bounds.MaxY - 1>>, <<bounds.MaxX - 1, bounds.MaxY - 1>> >>

CountBlackCorners ==
    Cardinality({k \in 1..4 : Black8(At(corners[k][1], corners[k][2]))})

CountWhiteCorners ==
    Cardinality({k \in 1..4 : /\ ~Black8(At(corners[k][1], corners[k][2]))
                              /\ White8(At(corners[k][1], corners[k][2]))})

\* a mode inference that falls back to Black where no corner is background
TargetModeNoNone(b, w) ==
    IF b > w THEN "Black"
    ELSE IF w > b THEN "White"
    ELSE IF b > 0 THEN "Black"
    ELSE IF w > 0 THEN "White"
    ELSE "Black"

\* a mode inference that gives up on a tie
TargetModeTieNone(b, w) ==
    IF b > w THEN "Black"
    ELSE IF w > b THEN "White"
    ELSE "None"

TargetMode(b, w) ==
    IF b > w THEN "Black"
    ELSE IF w > b THEN "White"
    ELSE IF b > 0 THEN "Black"
    ELSE IF w > 0 THEN "White"
    ELSE "None"

\* ------------------------------------------------------------ line classifier

\* the pixel counts toward matchCount
Matches(px, py) ==
    \/ mode = "Black" /\ Black8(At(px, py))
    \/ mode = "White" /\ ~(mode = "Black" /\ Black8(At(px, py))) /\ White8(At(px, py))

\* float64(matchCount)/total >= noiseTolerance. 0/0 is NaN, which compares
\* false; otherwise the quotient is correctly rounded and 0.95 is the nearest
\* double, so for totals below 2^31 the comparison agrees with the exact one.
\* a tolerance test that excludes the boundary ratio
meetsToleranceStrict(matchCount, total) ==
    IF total = 0 THEN FALSE ELSE matchCount * noiseDen > noiseNum * total

meetsTolerance(matchCount, total) ==
    IF total = 0 THEN FALSE ELSE matchCount * noiseDen >= noiseNum * total

isRowRemovable(py) ==
    LET width == Dx(bounds)
        matchCount == Cardinality({px \in bounds.MinX..(bounds.MaxX - 1) : Matches(px, py)})
    IN  meetsTolerance(matchCount, width)

isColRemovable(px) ==
    LET height == Dy(bounds)
        matchCount == Cardinality({py \in bounds.MinY..(bounds.MaxY - 1) : Matches(px, py)})
    IN  meetsTolerance(matchCount, height)

\* a lookahead that inspects one row too few
allNextRemovableShort(py) ==
    IF py + lookaheadGap >= bounds.MaxY THEN FALSE
    ELSE \A k \in 1..(lookaheadGap - 1) : isRowRemovable(py + k)

\* the lookahead of the top scan at row py
allNextRemovable(py) ==
    IF py + lookaheadGap >= bounds.MaxY THEN FALSE
    ELSE \A k \in 1..lookaheadGap : isRowRemovable(py + k)

\* the lookahead of the bottom scan at row py
allPriorRemovable(py) ==
    IF py - lookaheadGap < minY THEN FALSE
    ELSE \A k \in 1..lookaheadGap : isRowRemovable(py - k)

\* the lookahead of the left scan at column px
allNextColRemovable(px) ==
    IF px + lookaheadGap >= bounds.MaxX THEN FALSE
    ELSE \A k \in 1..lookaheadGap : isColRemovable(px + k)

\* the lookahead of the right scan at column px
allPriorColRemovable(px) ==
    IF px - lookaheadGap < minX THEN FALSE
    ELSE \A k \in 1..lookaheadGap : isColRemovable(px - k)

\* ------------------------------------------------------------ findContentBounds

\* lines 159-224: the locals, the corner counts, the mode, the early return
Start ==
    /\ pc = "start"
    /\ blackCornerCount' = CountBlackCorners
    /\ whiteCornerCount' = CountWhiteCorners
    /\ mode' = TargetMode(blackCornerCount', whiteCornerCount')
    /\ minX' = bounds.MaxX
    /\ maxX' = bounds.MinX
    /\ maxY' = bounds.MinY
    /\ x' = x
    /\ IF mode' = "None"
       THEN /\ result' = bounds
            /\ pc' = "done"
            /\ minY' = bounds.MaxY
            /\ UNCHANGED <<y, scans>>
       ELSE /\ pc' = "top"
            /\ minY' = bounds.MinY
            /\ y' = bounds.MinY
            /\ scans' = Append(scans, "top")
            /\ UNCHANGED result
    /\ UNCHANGED <<src, img, pass, first, rev1, probe, batchVars>>

\* one iteration of the top scan that moves the boundary past row y
TopAdvance ==
    /\ pc = "top"
    /\ y < bounds.MaxY
    /\ IF isRowRemovable(y) THEN TRUE ELSE allNextRemovable(y)
    /\ minY' = y + 1
    /\ y' = y + 1
    /\ UNCHANGED <<src, img, pc, mode, blackCornerCount, whiteCornerCount, x,
                   minX, maxX, maxY, result, scans, pass, first, rev1, probe, batchVars>>

\* the top scan ends (break, or y reached Max.Y); lines 297-303
TopStop ==
    /\ pc = "top"
    /\ ~(y < bounds.MaxY /\ (IF isRowRemovable(y) THEN TRUE ELSE allNextRemovable(y)))
    /\ IF minY >= bounds.MaxY
       THEN /\ result' = ZR
            /\ pc' = "done"
            /\ UNCHANGED <<y, maxY, scans>>
       ELSE /\ pc' = "bottom"
            /\ maxY' = bounds.MaxY
            /\ y' = bounds.MaxY - 1
            /\ scans' = Append(scans, "bottom")
            /\ UNCHANGED result
    /\ UNCHANGED <<src, img, mode, blackCornerCount, whiteCornerCount, x,
                   minX, minY, maxX, pass, first, rev1, probe, batchVars>>

BottomAdvance ==
    /\ pc = "bottom"
    /\ y >= minY
    /\ IF isRowRemovable(y) THEN TRUE ELSE allPriorRemovable(y)
    /\ maxY' = y
    /\ y' = y - 1
    /\ UNCHANGED <<src, img, pc, mode, blackCornerCount, whiteCornerCount, x,
                   minX, minY, maxX, result, scans, pass, first, rev1, probe, batchVars>>

\* the bottom scan ends; lines 328-329
BottomStop ==
    /\ pc = "bottom"
    /\ ~(y >= minY /\ (IF isRowRemovable(y) THEN TRUE ELSE allPriorRemovable(y)))
    /\ pc' = "left"
    /\ minX' = bounds.MinX
    /\ x' = bounds.MinX
    /\ scans' = Append(scans, "left")
    /\ UNCHANGED <<src, img, mode, blackCornerCount, whiteCornerCount, y,
                   minY, maxX, maxY, result, pass, first, rev1, probe, batchVars>>

LeftAdvance ==
    /\ pc = "left"
    /\ x < bounds.MaxX
    /\ IF isColRemovable(x) THEN TRUE ELSE allNextColRemovable(x)
    /\ minX' = x + 1
    /\ x' = x + 1
    /\ UNCHANGED <<src, img, pc, mode, blackCornerCount, whiteCornerCount, y,
                   minY, maxX, maxY, result, scans, pass, first, rev1, probe, batchVars>>

\* a left scan that hands the right scan a boundary one column too far
LeftStopOffByOne ==
    /\ pc = "left"
    /\ ~(x < bounds.MaxX /\ (IF isColRemovable(x) THEN TRUE ELSE allNextColRemovable(x)))
    /\ pc' = "right"
    /\ maxX' = bounds.MaxX + 1
    /\ x' = bounds.MaxX - 1
    /\ scans' = Append(scans, "right")
    /\ UNCHANGED <<src, img, mode, blackCornerCount, whiteCornerCount, y,
                   minX, minY, maxY, result, pass, first, rev1, probe, batchVars>>

\* the left scan ends; lines 354-355
LeftStop ==
    /\ pc = "left"
    /\ ~(x < bounds.MaxX /\ (IF isColRemovable(x) THEN TRUE ELSE allNextColRemovable(x)))
    /\ pc' = "right"
    /\ maxX' = bounds.MaxX
    /\ x' = bounds.MaxX - 1
    /\ scans' = Append(scans, "right")
    /\ UNCHANGED <<src, img, mode, blackCornerCount, whiteCornerCount, y,
                   minX, minY, maxY, result, pass, first, rev1, probe, batchVars>>

RightAdvance ==
    /\ pc = "right"
    /\ x >= minX
    /\ IF isColRemovable(x) THEN TRUE ELSE allPriorColRemovable(x)
    /\ maxX' = x
    /\ x' = x - 1
    /\ UNCHANGED <<src, img, pc, mode, blackCornerCount, whiteCornerCount, y,
                   minX, minY, maxY, result, scans, pass, first, rev1, probe, batchVars>>

\* the right scan ends; line 380
RightStop ==
    /\ pc = "right"
    /\ ~(x >= minX /\ (IF isColRemovable(x) THEN TRUE ELSE allPriorColRemovable(x)))
    /\ result' = Rect(minX, minY, maxX, maxY)
    /\ pc' = "done"
    /\ UNCHANGED <<src, img, mode, blackCornerCount, whiteCornerCount, x, y,
                   minX, minY, maxX, maxY, scans, pass, first, rev1, probe, batchVars>>

Scan ==
    \/ Start
    \/ TopAdvance
    \/ TopStop
    \/ BottomAdvance
    \/ BottomStop
    \/ LeftAdvance
    \/ LeftStop
    \/ RightAdvance
    \/ RightStop

\* ------------------------------------------------------------ cropImage

\* RGBA.SubImage: the decoders' image types all have SubImage, so cropImage
\* takes its first branch
SubImage(im, r) == [Pix |-> im.Pix, Rect |-> Intersect(r, im.Rect)]

cropImage(im, r) == SubImage(im, r)

\* the locals of a findContentBounds call that has not started
Fresh ==
    /\ pc' = "start"
    /\ mode' = "None"
    /\ blackCornerCount' = 0
    /\ whiteCornerCount' = 0
    /\ x' = 0
    /\ y' = 0
    /\ minX' = 0
    /\ minY' = 0
    /\ maxX' = 0
    /\ maxY' = 0
    /\ result' = ZR
    /\ scans' = <<>>

\* findContentBounds is run again on its own cropped output
Recrop ==
    /\ bpc = "off"
    /\ pc = "done"
    /\ pass = 1
    /\ ~rev1.ran
    /\ ~Empty(result)
    /\ first' = [mode |-> mode, result |-> result]
    /\ img' = cropImage(img, result)
    /\ pass' = 2
    /\ Fresh
    /\ UNCHANGED <<src, rev1, probe, batchVars>>

\* ------------------------------------------------------------ first revision

\* main.go is the first revision of the program: black borders only, an
\* exact scan without tolerance or lookahead, and the threshold 15. The
\* test-suite (TestIsBlack at 60, the white border test) is that of the
\* second revision, modelled above.
isBlackRev1(c) ==
    LET v == RGBA(c)
    IN  /\ Shr8(v[1]) <= blackThresholdOld
        /\ Shr8(v[2]) <= blackThresholdOld
        /\ Shr8(v[3]) <= blackThresholdOld

Lowest(S) == CHOOSE k \in S : \A j \in S : k <= j

Highest(S) == CHOOSE k \in S : \A j \in S : j <= k

\* main.go, findContentBounds: the first row, last row, first column and
\* last column that hold a pixel that is not black, the columns looked for
\* in the rows [minY, maxY) only
findContentBoundsRev1 ==
    LET xs == bounds.MinX..(bounds.MaxX - 1)
        contentRows == {py \in bounds.MinY..(bounds.MaxY - 1) :
                           \E px \in xs : ~isBlackRev1(At(px, py))}
    IN  IF contentRows = {} THEN ZR
        ELSE LET top == Lowest(contentRows)
                 bottom == Highest({py \in contentRows : py >= top}) + 1
                 contentCols == {px \in xs :
                                    \E py \in top..(bottom - 1) : ~isBlackRev1(At(px, py))}
                 left == IF contentCols = {} THEN bounds.MaxX ELSE Lowest(contentCols)
                 after == {px \in contentCols : px >= left}
                 right == IF after = {} THEN bounds.MinX ELSE Highest(after) + 1
             IN  Rect(left, top, right, bottom)

\* the first revision is run on the image the second revision has finished
RunRev1 ==
    /\ bpc = "off"
    /\ pc = "done"
    /\ ~rev1.ran
    /\ rev1' = [ran |-> TRUE, rect |-> findContentBoundsRev1]
    /\ UNCHANGED <<src, img, pc, mode, blackCornerCount, whiteCornerCount, x, y,
                   minX, minY, maxX, maxY, result, scans, pass, first, probe,
                   batchVars>>

\* ------------------------------------------------------------ single pixels

\* the channel values of TestIsBlack and the values around both thresholds
ChannelValues == {0, 10, 15, 16, 59, 60, 61, 128, 194, 195, 196, 255}

Colors == {<<r, g, b>> : r \in ChannelValues, g \in ChannelValues, b \in ChannelValues}

NoProbe == [c |-> Black, step |-> "off", isBlack |-> FALSE, black |-> FALSE,
            white |-> FALSE, counted |-> "none"]

\* TestIsBlack: isBlack is called on one colour
CallIsBlack ==
    /\ pc = "probe"
    /\ probe.step = "isBlack"
    /\ probe' = [probe EXCEPT !.step = "corner", !.isBlack = isBlack(probe.c)]
    /\ UNCHANGED <<src, img, pc, mode, blackCornerCount, whiteCornerCount, x, y,
                   minX, minY, maxX, maxY, result, scans, pass, first, rev1,
                   batchVars>>

\* the body of the corner loop on a pixel of that colour: the two helpers
\* and the if / else if that counts it
ClassifyCorner ==
    /\ pc = "probe"
    /\ probe.step = "corner"
    /\ LET v == RGBA(probe.c)
           r8 == Shr8(v[1])
           g8 == Shr8(v[2])
           b8 == Shr8(v[3])
       IN  probe' = [probe EXCEPT
                        !.step = "done",
                        !.black = isPixelBlack(r8, g8, b8),
                        !.white = isPixelWhite(r8, g8, b8),
                        !.counted = IF isPixelBlack(r8, g8, b8) THEN "black"
                                    ELSE IF isPixelWhite(r8, g8, b8) THEN "white"
                                    ELSE "none"]
    /\ UNCHANGED <<src, img, pc, mode, blackCornerCount, whiteCornerCount, x, y,
                   minX, minY, maxX, maxY, result, scans, pass, first, rev1,
                   batchVars>>

\* ------------------------------------------------------------ batch driver

\* A file name is a sequence of pieces, so that a prefix and an extension can
\* be put on and looked for: "processed_a.png" is <<"processed_", "a", ".png">>.
HasPrefix(name, piece) == Len(name) > 0 /\ name[1] = piece

\* filepath.Ext: the names below carry a dot only in a leading "." or in
\* their last piece
Ext(name) ==
    IF Len(name) > 0 /\ name[Len(name)] \in {".jpg", ".jpeg", ".png", ".txt"}
    THEN name[Len(name)] ELSE ""

\* A directory entry, with what the file system and the codecs will answer
\* for it: sniff is isSupportedImage's answer, decode is loadImage's ("error"
\* or the format), image is what the file decodes to, save is saveImage's
\* ("ok", "create_error" when os.Create fails, "encode_error" when the encoder
\* fails after the file was created).
Entry(isDir, name, sniff, decode, image, save) ==
    [isDir |-> isDir, name |-> name, sniff |-> sniff, decode |-> decode,
     image |-> image, save |-> save]

BlankImage == Input(3, 3, Black, <<>>)

FramedImage == Input(4, 4, Black, << <<1, 1, 3, 3, White>> >>)

GrayImage == Input(2, 2, Gray, <<>>)

\* the entries a listing is made of, in the order of their names
EntryKinds ==
    << Entry(FALSE, <<".", "a", ".png">>, TRUE, "png", FramedImage, "ok"),
       Entry(FALSE, <<"bad", ".jpg">>, TRUE, "error", BlankImage, "ok"),
       Entry(FALSE, <<"blank", ".png">>, TRUE, "png", BlankImage, "ok"),
       Entry(FALSE, <<"cut", ".jpg">>, TRUE, "jpeg", FramedImage, "encode_error"),
       Entry(FALSE, <<"full", ".png">>, TRUE, "png", FramedImage, "create_error"),
       Entry(FALSE, <<"notes", ".txt">>, FALSE, "error", BlankImage, "ok"),
       Entry(FALSE, <<"photo", ".jpg">>, TRUE, "jpeg", FramedImage, "ok"),
       Entry(FALSE, <<"processed_", "a", ".png">>, TRUE, "png", FramedImage, "ok"),
       Entry(FALSE, <<"shot">>, TRUE, "png", GrayImage, "ok"),
       Entry(TRUE, <<"sub">>, FALSE, "error", BlankImage, "ok") >>

\* os.ReadDir returns the entries sorted by name, each name once
RECURSIVE Increasing(_)
Increasing(q) ==
    IF Len(q) <= 1 THEN TRUE ELSE q[1] < q[2] /\ Increasing(Tail(q))

Listings ==
    {[k \in 1..Len(q) |-> EntryKinds[q[k]]] :
        q \in {r \in UNION {[1..n -> 1..Len(EntryKinds)] : n \in 0..MaxFiles} :
                  Increasing(r)}}

entry == files.entries[idx]

isSupportedImage(e) == e.sniff

\* os.ReadDir fails: processDirectory returns the error
ReadDirFail ==
    /\ bpc = "readdir"
    /\ ~files.ok
    /\ ret' = "error"
    /\ bpc' = "returned"
    /\ UNCHANGED <<scanVars, files, idx, outputs, log>>

ReadDirOK ==
    /\ bpc = "readdir"
    /\ files.ok
    /\ idx' = 1
    /\ bpc' = "loop"
    /\ UNCHANGED <<scanVars, files, outputs, log, ret>>

\* the four `continue`s of the loop
SkipEntry ==
    /\ bpc = "loop"
    /\ idx <= Len(files.entries)
    /\ \/ entry.isDir
       \/ HasPrefix(entry.name, ".")
       \/ HasPrefix(entry.name, "processed_")
       \/ ~isSupportedImage(entry)
    /\ idx' = idx + 1
    /\ UNCHANGED <<scanVars, files, bpc, outputs, log, ret>>

IsCandidate(e) ==
    /\ ~e.isDir
    /\ ~HasPrefix(e.name, ".")
    /\ ~HasPrefix(e.name, "processed_")
    /\ isSupportedImage(e)

Failed(i, why, r) == [idx |-> i, err |-> why, bounds |-> r]

\* a processImage that hands its error up, and a loop that returns it
LoadFailReturns ==
    /\ bpc = "loop"
    /\ idx <= Len(files.entries)
    /\ IsCandidate(entry)
    /\ entry.decode = "error"
    /\ log' = Append(log, Failed(idx, "decode", ZR))
    /\ ret' = "error"
    /\ bpc' = "returned"
    /\ UNCHANGED <<scanVars, files, idx, outputs>>

\* processImage: loadImage fails; the loop prints the error and goes on
LoadFail ==
    /\ bpc = "loop"
    /\ idx <= Len(files.entries)
    /\ IsCandidate(entry)
    /\ entry.decode = "error"
    /\ log' = Append(log, Failed(idx, "decode", ZR))
    /\ idx' = idx + 1
    /\ UNCHANGED <<scanVars, files, bpc, outputs, ret>>

\* processImage: loadImage succeeds and findContentBounds is called
LoadOK ==
    /\ bpc = "loop"
    /\ idx <= Len(files.entries)
    /\ IsCandidate(entry)
    /\ entry.decode # "error"
    /\ src' = entry.image
    /\ img' = NewImage(entry.image.w, entry.image.h, entry.image.bg, entry.image.layers)
    /\ Fresh
    /\ bpc' = "bounds"
    /\ UNCHANGED <<pass, first, rev1, probe, files, idx, outputs, log, ret>>

\* processImage: bounds.Empty(), nothing is written
EmptyBounds ==
    /\ bpc = "bounds"
    /\ pc = "done"
    /\ Empty(result)
    /\ log' = Append(log, Failed(idx, "image is completely black or empty", result))
    /\ idx' = idx + 1
    /\ bpc' = "loop"
    /\ pc' = "idle"
    /\ UNCHANGED <<src, img, mode, blackCornerCount, whiteCornerCount, x, y,
                   minX, minY, maxX, maxY, result, scans, pass, first, rev1,
                   probe, files, outputs, ret>>

\* "processed_" + filename, with the format's extension when there is none
outFilename(name, format) ==
    LET out == <<"processed_">> \o name
    IN  IF Ext(out) = ""
        THEN IF format = "jpeg" THEN out \o <<".jpg">>
             ELSE IF format = "png" THEN out \o <<".png">>
             ELSE out
        ELSE out

\* processImage: cropImage and saveImage
Save ==
    /\ bpc = "bounds"
    /\ pc = "done"
    /\ ~Empty(result)
    /\ LET croppedImg == cropImage(img, result)
           file == [name |-> outFilename(entry.name, entry.decode), from |-> idx,
                    rect |-> croppedImg.Rect, complete |-> entry.save = "ok"]
       IN  /\ outputs' = IF entry.save = "create_error" THEN outputs
                         ELSE outputs \cup {file}
           /\ log' = Append(log, Failed(idx, IF entry.save = "ok" THEN "" ELSE entry.save,
                                        result))
    /\ idx' = idx + 1
    /\ bpc' = "loop"
    /\ pc' = "idle"
    /\ UNCHANGED <<src, img, mode, blackCornerCount, whiteCornerCount, x, y,
                   minX, minY, maxX, maxY, result, scans, pass, first, rev1,
                   probe, files, ret>>

\* the loop is over: return nil
Return ==
    /\ bpc = "loop"
    /\ idx > Len(files.entries)
    /\ ret' = "nil"
    /\ bpc' = "returned"
    /\ UNCHANGED <<scanVars, files, idx, outputs, log>>

processDirectory ==
    \/ ReadDirFail
    \/ ReadDirOK
    \/ SkipEntry
    \/ LoadFail
    \/ LoadOK
    \/ EmptyBounds
    \/ Save
    \/ Return

\* ------------------------------------------------------------ inputs

\* every image of side at most MaxTiny over three colours, pixel by pixel
TinyPalette == {Black, Gray, White}

\* the w by h image whose k-th pixel, row by row, is f[k]
TinyInput(w, h, f) ==
    Input(w, h, Black,
          [k \in 1..(w * h) |->
              <<(k - 1) % w, (k - 1) \div w,
                ((k - 1) % w) + 1, ((k - 1) \div w) + 1, f[k]>>])

\* uniform canvases of several sizes in every colour, the first row possibly
\* repainted in a black-ish colour
PlainSizes == {1, 3, lookaheadGap + 2, MidSide + 1}

Palette == {Black, Dark, Dim, Gray, Pale, Light, White, Red}

PlainInputs ==
    {Input(w, h, bg, ls) :
        w \in PlainSizes, h \in PlainSizes, bg \in Palette,
        ls \in {<<>>, << <<0, 0, 1, 1, Black>> >>, << <<0, 0, 1, 1, Dark>> >>,
                << <<0, 0, MidSide + 1, 1, <<60, 0, 30>> >> >>}}

\* mid-size canvases: one content rectangle and at most one line of noise
MidCoords == {0, 3, MidSide - 3, MidSide}

MidRects ==
    {<<x0, y0, x1, y1>> : x0 \in MidCoords, y0 \in MidCoords,
                          x1 \in MidCoords, y1 \in MidCoords}

MidContent(bg) ==
    {<<>>} \cup
    {<< <<r[1], r[2], r[3], r[4], c>> >> :
        r \in {q \in MidRects : q[1] < q[3] /\ q[2] < q[4]},
        c \in {Opposite(bg), Red}}

MidNoise(c) ==
    {<<>>,
     << <<0, 1, 1, 2, c>> >>,                            \* one stray pixel in row 1
     << <<0, 1, 2, 2, c>> >>,                            \* two stray pixels in row 1
     << <<0, 1, MidSide, 2, c>> >>,                      \* row 1 repainted
     << <<0, MidSide - 2, MidSide, MidSide - 1, c>> >>,  \* a row near the bottom
     << <<1, 0, 2, MidSide, c>> >>,                      \* column 1 repainted
     << <<MidSide - 2, 0, MidSide - 1, MidSide, c>> >>,  \* a column near the right
     << <<0, MidSide - 3, 2, MidSide - 2, c>> >>}        \* two stray pixels low down

MidInputs ==
    UNION {{Input(MidSide, MidSide, bg, content \o noise) :
               content \in MidContent(bg), noise \in MidNoise(Opposite(bg))} :
           bg \in {Black, White}}

\* mid-size canvases with each corner pixel set on its own
CornerPalette == {Black, Gray, White}

CornerInputs ==
    {Input(MidSide, MidSide, bg,
           << <<0, 0, 1, 1, c[1]>>, <<MidSide - 1, 0, MidSide, 1, c[2]>>,
              <<0, MidSide - 1, 1, MidSide, c[3]>>,
              <<MidSide - 1, MidSide - 1, MidSide, MidSide, c[4]>> >>) :
        bg \in {Black, Gray}, c \in [1..4 -> CornerPalette]}

\* the canvases of TestFindContentBounds, and variations of them
StrayCounts == {4, 5, 6}

TestInputs ==
    {Input(Canvas, Canvas, Black, << <<25, 25, 75, 75, White>> >>),
     Input(Canvas, Canvas, Black, << <<20, 20, 80, 80, White>> >>),
     Input(Canvas, Canvas, White, << <<20, 20, 80, 80, Black>> >>),
     Input(Canvas, Canvas, Black, << <<10, 10, 90, 90, White>> >>),
     Input(Canvas, Canvas, Black, << <<20, 40, 80, 42, White>> >>),
     Input(Canvas, Canvas, Gray,
           << <<0, 0, 1, 1, Black>>, <<99, 99, 100, 100, White>> >>),
     Input(Canvas, Canvas, Black,
           << <<99, 0, 100, 1, Gray>>, <<0, 99, 1, 100, Gray>>,
              <<99, 99, 100, 100, White>> >>),
     Input(Canvas, Canvas, Black,
           << <<30, 30, 70, 70, White>>, <<0, 10, 100, 11, White>> >>),
     Input(Canvas, Canvas, Black,
           << <<30, 30, 70, 70, White>>, <<0, 25, 100, 26, White>> >>),
     Input(Canvas, Canvas, Black, << <<0, 96, 100, 97, White>> >>)}
    \cup
    {Input(Canvas, Canvas, Black,
           << <<20, 20, 80, 80, White>>, <<0, ny, k, ny + 1, White>> >>) :
        k \in StrayCounts, ny \in {5, 17}}

Inputs == PlainInputs \cup MidInputs \cup CornerInputs \cup TestInputs

\* ------------------------------------------------------------ specification

InitScan ==
    /\ pc = "start"
    /\ mode = "None"
    /\ blackCornerCount = 0
    /\ whiteCornerCount = 0
    /\ x = 0
    /\ y = 0
    /\ minX = 0
    /\ minY = 0
    /\ maxX = 0
    /\ maxY = 0
    /\ result = ZR
    /\ scans = <<>>
    /\ pass = 1
    /\ first = [mode |-> "None", result |-> ZR]
    /\ rev1 = [ran |-> FALSE, rect |-> ZR]
    /\ probe = NoProbe

Init ==
    /\ \/ src \in Inputs
       \/ \E w \in 1..MaxTiny : \E h \in 1..MaxTiny :
             \E f \in [1..(w * h) -> TinyPalette] : src = TinyInput(w, h, f)
    /\ img = NewImage(src.w, src.h, src.bg, src.layers)
    /\ InitScan
    /\ files = <<>>
    /\ bpc = "off"
    /\ idx = 0
    /\ outputs = {}
    /\ log = <<>>
    /\ ret = "none"

Next == Scan \/ Recrop \/ RunRev1

Spec == Init /\ [][Next]_vars

\* the batch driver on a directory: the file system's answer is fixed at the
\* start, no findContentBounds call is under way
BatchInit ==
    /\ files \in {[ok |-> FALSE, entries |-> <<>>]} \cup
                 {[ok |-> TRUE, entries |-> l] : l \in Listings}
    /\ bpc = "readdir"
    /\ idx = 0
    /\ outputs = {}
    /\ log = <<>>
    /\ ret = "none"
    /\ src = GrayImage
    /\ img = NewImage(GrayImage.w, GrayImage.h, GrayImage.bg, GrayImage.layers)
    /\ pc = "idle"
    /\ mode = "None"
    /\ blackCornerCount = 0
    /\ whiteCornerCount = 0
    /\ x = 0
    /\ y = 0
    /\ minX = 0
    /\ minY = 0
    /\ maxX = 0
    /\ maxY = 0
    /\ result = ZR
    /\ scans = <<>>
    /\ pass = 1
    /\ first = [mode |-> "None", result |-> ZR]
    /\ rev1 = [ran |-> FALSE, rect |-> ZR]
    /\ probe = NoProbe

BatchNext == processDirectory \/ Scan

BatchSpec == BatchInit /\ [][BatchNext]_vars

\* single colours put to the classifiers, no image being scanned
PixelInit ==
    /\ probe \in {[NoProbe EXCEPT !.c = c, !.step = "isBlack"] : c \in Colors}
    /\ src = GrayImage
    /\ img = NewImage(GrayImage.w, GrayImage.h, GrayImage.bg, GrayImage.layers)
    /\ pc = "probe"
    /\ mode = "None"
    /\ blackCornerCount = 0
    /\ whiteCornerCount = 0
    /\ x = 0
    /\ y = 0
    /\ minX = 0
    /\ minY = 0
    /\ maxX = 0
    /\ maxY = 0
    /\ result = ZR
    /\ scans = <<>>
    /\ pass = 1
    /\ first = [mode |-> "None", result |-> ZR]
    /\ rev1 = [ran |-> FALSE, rect |-> ZR]
    /\ files = <<>>
    /\ bpc = "off"
    /\ idx = 0
    /\ outputs = {}
    /\ log = <<>>
    /\ ret = "none"

PixelNext == CallIsBlack \/ ClassifyCorner

PixelSpec == PixelInit /\ [][PixelNext]_vars

\* ------------------------------------------------------------ properties

\* the classes of section 4.1, on the stored 8-bit channels
Blackish(c) == c[1] <= 60 /\ c[2] <= 60 /\ c[3] <= 60

Whiteish(c) == c[1] >= 195 /\ c[2] >= 195 /\ c[3] >= 195

MatchesMode(m, c) == (m = "Black" /\ Blackish(c)) \/ (m = "White" /\ Whiteish(c))

Pixel(px, py) == img.Pix[py + 1][px + 1]

Rows == img.Rect.MinY..(img.Rect.MaxY - 1)

Cols == img.Rect.MinX..(img.Rect.MaxX - 1)

Least(S) == CHOOSE k \in S : \A j \in S : k <= j

\* at least 95 in 100 of the pixels of row py match mode m
RowRatioOK(m, py) ==
    100 * Cardinality({px \in Cols : MatchesMode(m, Pixel(px, py))}) >= 95 * Cardinality(Cols)

\* at least 95 in 100 of the pixels of column px match mode m
ColRatioOK(m, px) ==
    100 * Cardinality({py \in Rows : MatchesMode(m, Pixel(px, py))}) >= 95 * Cardinality(Rows)

\* row py ends the top scan: it is not removable, and it is not followed by
\* five rows that all are
StopsTopScan(py) ==
    /\ ~RowRatioOK(mode, py)
    /\ ~(/\ py + 5 <= img.Rect.MaxY - 1
         /\ \A k \in 1..5 : RowRatioOK(mode, py + k))

CornerPoints ==
    {<<img.Rect.MinX, img.Rect.MinY>>, <<img.Rect.MaxX - 1, img.Rect.MinY>>,
     <<img.Rect.MinX, img.Rect.MaxY - 1>>, <<img.Rect.MaxX - 1, img.Rect.MaxY - 1>>}

EdgePoints ==
    {p \in Cols \X Rows :
        \/ p[1] \in {img.Rect.MinX, img.Rect.MaxX - 1}
        \/ p[2] \in {img.Rect.MinY, img.Rect.MaxY - 1}}

Inside(r, s) ==
    s.MinX <= r.MinX /\ r.MaxX <= s.MaxX /\ s.MinY <= r.MinY /\ r.MaxY <= s.MaxY

ProperOrEmpty(r) ==
    \/ r.MinX >= r.MaxX
    \/ r.MinY >= r.MaxY
    \/ /\ r.MinX < r.MaxX
       /\ r.MinY < r.MaxY
       /\ Inside(r, img.Rect)

\* C1: the rectangle findContentBounds returns is empty, or has min.x < max.x
\* and min.y < max.y and lies inside the image's own bounds; this in both
\* revisions of findContentBounds.
C1_ResultInsideBounds ==
    /\ pc = "done" => ProperOrEmpty(result)
    /\ rev1.ran => ProperOrEmpty(rev1.rect)

\* all four scans ran and cut a proper, non-empty crop out of the image, and
\* so did the first revision
C1_Witness ==
    /\ pc = "done"
    /\ ~Empty(result)
    /\ result # img.Rect
    /\ Inside(result, img.Rect)
    /\ scans = <<"top", "bottom", "left", "right">>
    /\ rev1.ran
    /\ ~Empty(rev1.rect)
    /\ rev1.rect # img.Rect

\* the input is a black or white canvas with one rectangle of the opposite
\* colour strictly inside it, at least 2 by 2 and wider than 5% of the canvas
SingleRectCanvas ==
    /\ Len(src.layers) = 1
    /\ src.bg \in {Black, White}
    /\ LET l == src.layers[1]
       IN  /\ l[5] = Opposite(src.bg)
           /\ 0 < l[1] /\ l[3] < src.w
           /\ 0 < l[2] /\ l[4] < src.h
           /\ l[3] - l[1] >= 2
           /\ l[4] - l[2] >= 2
           /\ 100 * (l[3] - l[1]) > 5 * src.w

\* C2: on a uniform black or white canvas holding one solid rectangle of the
\* opposite colour strictly inside it, at least 2 by 2 pixels and wider than
\* 5% of the canvas width, findContentBounds returns exactly that rectangle.
C2_SingleRectReturned ==
    (pc = "done" /\ pass = 1 /\ SingleRectCanvas) =>
        result = Rect(src.layers[1][1], src.layers[1][2],
                      src.layers[1][3], src.layers[1][4])

AllBlackish == \A py \in Rows : \A px \in Cols : Blackish(Pixel(px, py))

\* C3: on an image whose pixels all have every channel <= 60 the mode is
\* Black and the rectangle returned is empty.
C3_UniformBlackIsEmpty ==
    (pc = "done" /\ AllBlackish) => (mode = "Black" /\ Empty(result))

\* a black-ish image of more than one pixel and more than one colour is done
C3_Witness ==
    /\ pc = "done"
    /\ AllBlackish
    /\ Cardinality(Rows) > 1
    /\ Cardinality(Cols) > 1
    /\ \E py \in Rows : \E px \in Cols : Pixel(px, py) # Pixel(img.Rect.MinX, img.Rect.MinY)
    /\ result = ZR

NoCornerBackground ==
    \A p \in CornerPoints : ~Blackish(Pixel(p[1], p[2])) /\ ~Whiteish(Pixel(p[1], p[2]))

\* C4: when no corner pixel is black-ish or white-ish, the mode is None,
\* findContentBounds returns the image's full bounds and enters no scan.
C4_NoneReturnsBounds ==
    (pc = "done" /\ NoCornerBackground) =>
        (mode = "None" /\ result = img.Rect /\ scans = <<>>)

\* the corners are neither, while the pixels between them are black
C4_Witness ==
    /\ pc = "done"
    /\ NoCornerBackground
    /\ Cardinality(Cols) >= 20
    /\ \A px \in Cols \ {img.Rect.MinX, img.Rect.MaxX - 1} : Blackish(Pixel(px, img.Rect.MinY))
    /\ result = img.Rect

\* one corner is black-ish, the opposite one white-ish, the other two neither
MixedCorners ==
    LET tl == Pixel(img.Rect.MinX, img.Rect.MinY)
        tr == Pixel(img.Rect.MaxX - 1, img.Rect.MinY)
        bl == Pixel(img.Rect.MinX, img.Rect.MaxY - 1)
        br == Pixel(img.Rect.MaxX - 1, img.Rect.MaxY - 1)
        Neither(c) == ~Blackish(c) /\ ~Whiteish(c)
        Pair(a, b, c, d) ==
            /\ (Blackish(a) /\ Whiteish(b)) \/ (Whiteish(a) /\ Blackish(b))
            /\ Neither(c)
            /\ Neither(d)
    IN  Pair(tl, br, tr, bl) \/ Pair(tr, bl, tl, br)

\* C5: with one corner black-ish, the opposite corner white-ish and the other
\* two neither, findContentBounds returns the image's full bounds, uncropped,
\* whatever the remaining pixels are.
C5_MixedCornersNoCrop ==
    (pc = "done" /\ pass = 1 /\ MixedCorners) => result = img.Rect

NoEdgeMatches(m) == \A p \in EdgePoints : ~MatchesMode(m, Pixel(p[1], p[2]))

OtherMode(m) == IF m = "Black" THEN "White" ELSE IF m = "White" THEN "Black" ELSE "None"

NoCornerMatches(m) == \A p \in CornerPoints : ~MatchesMode(m, Pixel(p[1], p[2]))

\* C6 as stated: when no edge pixel of the crop matches the mode of the first
\* run, the second run returns the crop's full bounds.
C6_Idempotent ==
    (pc = "done" /\ pass = 2 /\ NoEdgeMatches(first.mode)) => result = img.Rect

\* C6 as amended: when no edge pixel of the crop matches the mode of the first
\* run and no corner pixel of the crop is of the other background class, the
\* second run returns the crop's full bounds, which are the first result.
C6_IdempotentAmended ==
    (/\ pc = "done"
     /\ pass = 2
     /\ NoEdgeMatches(first.mode)
     /\ NoCornerMatches(OtherMode(first.mode))) =>
        (result = img.Rect /\ result = first.result)

\* the second run is done on a crop that the first run, in mode Black or
\* White, cut out of a larger image
C6_Witness ==
    /\ pc = "done"
    /\ pass = 2
    /\ first.mode # "None"
    /\ first.result # [MinX |-> 0, MinY |-> 0, MaxX |-> src.w, MaxY |-> src.h]
    /\ NoEdgeMatches(first.mode)
    /\ NoCornerMatches(OtherMode(first.mode))
    /\ result = first.result

\* C7: an empty rectangle is returned only when the top scan consumed every
\* row; when the top scan stops at a row before the bottom edge, the
\* rectangle returned is not empty.
C7_EmptyOnlyWhenAllBackground ==
    (pc = "done" /\ Empty(result)) => (mode # "None" /\ minY >= img.Rect.MaxY)

\* the test canvas with content at (20,20)-(80,80) and k stray white pixels
\* in the otherwise black border row ny
NoisyCanvas(k, ny) ==
    Input(Canvas, Canvas, Black,
          << <<20, 20, 80, 80, White>>, <<0, ny, k, ny + 1, White>> >>)

C9_TopBoundary ==
    (pc = "done" /\ mode # "None") =>
        LET S == {py \in Rows : StopsTopScan(py)}
        IN  /\ IF S = {} THEN result = ZR ELSE result.MinY = Least(S)
            /\ (pass = 1 /\ src = Input(Canvas, Canvas, Black,
                    << <<30, 30, 70, 70, White>>, <<0, 10, 100, 11, White>> >>)) =>
                  result = Rect(30, 30, 70, 70)

\* a row above the top boundary is not removable: the lookahead passed it over
C9_Witness ==
    /\ pc = "done"
    /\ mode # "None"
    /\ ~Empty(result)
    /\ \E py \in Rows : py < result.MinY /\ ~RowRatioOK(mode, py)


\* the indices of the listing's candidate files: regular files that are not
\* hidden, not already processed, and sniffed as JPEG or PNG
Candidates ==
    {i \in 1..Len(files.entries) :
        LET e == files.entries[i]
        IN  /\ ~e.isDir
            /\ e.name[1] \notin {".", "processed_"}
            /\ e.sniff}

\* C10: a file's failure (decode, empty content rectangle, save) never stops
\* the batch: processDirectory returns an error exactly when the directory
\* cannot be listed, otherwise processImage was called once on every
\* candidate of the listing, in order, and at no time is there an output for
\* a file whose content rectangle is empty.
C10_FailuresDoNotStopBatch ==
    /\ bpc = "returned" =>
          /\ ret = "error" <=> ~files.ok
          /\ files.ok =>
                /\ {log[k].idx : k \in 1..Len(log)} = Candidates
                /\ \A j, k \in 1..Len(log) : j < k => log[j].idx < log[k].idx
    /\ \A k \in 1..Len(log) :
          (log[k].err # "decode" /\ Empty(log[k].bounds)) =>
              ~\E f \in outputs : f.from = log[k].idx
    /\ \A f \in outputs : \E k \in 1..Len(log) :
          log[k].idx = f.from /\ ~Empty(log[k].bounds) /\ f.rect = log[k].bounds

\* the driver returned nil after a file that failed and a later one that
\* was saved
C10_Witness ==
    /\ bpc = "returned"
    /\ ret = "nil"
    /\ Len(log) = 2
    /\ log[1].err # ""
    /\ log[2].err = ""
    /\ \E f \in outputs : f.from = log[2].idx /\ f.complete

\* C11: isBlack and black-ish are true exactly when red, green and blue are
\* all <= 60, white-ish exactly when all three are >= 195, and no colour is
\* both; (60,60,60) is black, (61,61,61) and (255,0,0) are not.
C11_Thresholds ==
    /\ probe.step \in {"corner", "done"} =>
          /\ probe.isBlack <=> Blackish(probe.c)
          /\ probe.c = <<60, 60, 60>> => probe.isBlack
          /\ probe.c \in {<<61, 61, 61>>, <<255, 0, 0>>} => ~probe.isBlack
    /\ probe.step = "done" =>
          /\ probe.black <=> Blackish(probe.c)
          /\ probe.white <=> Whiteish(probe.c)
          /\ ~(probe.black /\ probe.white)
          /\ probe.counted = "black" <=> Blackish(probe.c)
          /\ probe.counted = "white" <=> Whiteish(probe.c)

\* a colour exactly on the white threshold has been classified white and not
\* black
C11_Witness ==
    /\ probe.step = "done"
    /\ probe.c = <<195, 195, 195>>
    /\ probe.white
    /\ ~probe.isBlack

\* at least 95 in 100 of the pixels of column px in the rows [minY, maxY)
\* match the mode
SpanColRatioOK(px) ==
    LET span == minY..(maxY - 1)
    IN  /\ span # {}
        /\ 100 * Cardinality({py \in span : MatchesMode(mode, Pixel(px, py))})
              >= 95 * Cardinality(span)

\* column px ends the left scan when columns are judged on the span
StopsLeftScan(px) ==
    /\ ~SpanColRatioOK(px)
    /\ ~(/\ px + 5 <= img.Rect.MaxX - 1
         /\ \A k \in 1..5 : SpanColRatioOK(px + k))

\* column px ends the right scan when columns are judged on the span
StopsRightScan(px) ==
    /\ ~SpanColRatioOK(px)
    /\ ~(/\ px - 5 >= minX
         /\ \A k \in 1..5 : SpanColRatioOK(px - k))

Greatest(S) == CHOOSE k \in S : \A j \in S : j <= k

\* C12: in the left and right scans a column is removable exactly when its
\* pixels in the rows [top boundary, bottom boundary) reach the match ratio,
\* so the left and right boundaries are those the pixels of that span
\* decide, whatever the rows excluded by the row scans hold.
C12_ColumnsOverSpan ==
    /\ (pc \in {"left", "right"} /\ x \in Cols) =>
          (isColRemovable(x) <=> SpanColRatioOK(x))
    /\ (pc = "done" /\ scans = <<"top", "bottom", "left", "right">>) =>
          LET L == {px \in Cols : StopsLeftScan(px)}
              R == {px \in Cols : px >= minX /\ StopsRightScan(px)}
          IN  /\ minX = IF L = {} THEN img.Rect.MaxX ELSE Least(L)
              /\ maxX = IF R = {} THEN minX ELSE Greatest(R) + 1

\* the four corner pixels, one per corner even where corners coincide
CornerPixel(k) ==
    LET xs == <<img.Rect.MinX, img.Rect.MaxX - 1, img.Rect.MinX, img.Rect.MaxX - 1>>
        ys == <<img.Rect.MinY, img.Rect.MinY, img.Rect.MaxY - 1, img.Rect.MaxY - 1>>
    IN  Pixel(xs[k], ys[k])

\* C13: the mode is a total function of the four corner classifications, a
\* corner counting for at most one side: Black when blackCount > whiteCount,
\* White when whiteCount > blackCount, Black when the counts are equal and
\* not zero, None exactly when both are zero.
C13_ModeFromCorners ==
    pc \in {"top", "bottom", "left", "right", "done"} =>
        /\ blackCornerCount = Cardinality({k \in 1..4 : Blackish(CornerPixel(k))})
        /\ whiteCornerCount = Cardinality({k \in 1..4 : Whiteish(CornerPixel(k))})
        /\ blackCornerCount + whiteCornerCount <= 4
        /\ mode \in {"Black", "White", "None"}
        /\ blackCornerCount > whiteCornerCount => mode = "Black"
        /\ whiteCornerCount > blackCornerCount => mode = "White"
        /\ (blackCornerCount = whiteCornerCount /\ blackCornerCount > 0) => mode = "Black"
        /\ mode = "None" <=> (blackCornerCount = 0 /\ whiteCornerCount = 0)

\* a tie between corners of both classes went to Black and the scans ran
C13_Witness ==
    /\ pc = "done"
    /\ blackCornerCount = whiteCornerCount
    /\ blackCornerCount > 0
    /\ mode = "Black"
    /\ scans # <<>>

====
